---- MODULE Spec2Model ----
(***************************************************************************)
(* A model of kivy/network/urlrequest.py: one UrlRequest object, its       *)
(* worker thread (run), the consumer context that drains the result queue  *)
(* (_dispatch_result, run by the Clock trigger or by wait()), and the      *)
(* threads that call start() and cancel().                                 *)
(***************************************************************************)
EXTENDS Integers, Sequences, FiniteSets, TLC

\* ------------------------------------------------------------------ bounds
\* largest response body, in bytes
MaxBody == 2
\* number of wait() calls the consumer makes
MaxWaits == 1
\* number of start() calls made on the request
MaxStarts == 2
\* number of bind() calls made on the request
MaxBinds == 2
\* largest number of header lines of a response
MaxHeaders == 3

\* ------------------------------------------------------- inputs and values
\* chunk_size constructor parameter (a small value instead of the default)
chunk_size == 2

\* Python's None for string-valued fields, and for the integer status field
None == "None"
NoStatus == 0

\* no response object (resp is None in 'error' and 'killed' events);
\* a response object is represented by its status code
NoResp == 0

\* the two transport implementations of implementation_map
Backends == {"urllib", "requests"}

\* status codes a response can carry: http.client accepts 100..999
StatusCodes == {100, 200, 301, 404, 503, 600}

\* Content-Type headers of a response, as the parts content_type.split(';')
\* yields (the empty sequence: header absent, get_content_type returns None)
ContentTypes == {<<"application/json">>, <<"application/json", " charset=utf-8">>,
                 <<"text/plain">>, <<>>}

\* what json.loads / bytes.decode do with the body that was read
BodyKinds == {"json", "notjson", "notutf8"}

\* the callback lists of a request (the keywords bind() is used with)
CallbackKinds == {"on_start", "on_success", "on_redirect", "on_failure",
                 "on_error", "on_progress", "on_cancel", "on_finish"}

\* keyword arguments of a bind() call: one callable (not iterable), or a list
BindArgs ==
    {[callback_type |-> "on_success", iterable |-> FALSE, methods |-> <<"f">>],
     [callback_type |-> "on_progress", iterable |-> TRUE,
      methods |-> <<"g", "h">>]}

\* header names and values of a response; a value is its sequence of
\* characters
HeaderNames == {"Set-Cookie", "X-A"}
HeaderValues == {<<"a">>, <<"b">>, <<"c", "d">>}

\* what get_all_headers(resp) can yield: (key, value) pairs in arrival order
HeaderLists ==
    UNION {[1..n -> HeaderNames \X HeaderValues] : n \in 0..MaxHeaders}

Min(a, b) == IF a < b THEN a ELSE b

VARIABLES
    backend,        \* which subclass the request is an instance of
    file_path,      \* self.file_path: None or a path
    decode,         \* self.decode
    self_chunk_size, \* self._chunk_size
    started,        \* Thread._started
    on_start_calls, \* history: times start() dispatched the on_start callbacks
    wpc,            \* position of the worker thread in run()
    raised,         \* an exception is propagating to run()'s except clause
    resp,           \* the worker's resp local (NoResp until call_request returns)
    unread,         \* bytes of the body the transport has not handed out yet
    total_size,     \* the worker's total_size local
    bytes_so_far,   \* get_chunks' bytes_so_far
    result,         \* the worker's result local
    fd_open,        \* the file sink is open (inside the with block)
    conn,           \* the connection handle req: "none", "open", "closed"
    queue,          \* self._queue (a deque; element 1 is the left end)
    trigger,        \* the Clock trigger _trigger_result is scheduled
    cancel_event,   \* self._cancel_event
    g_requests,     \* the module-level registry
    mode,           \* what the consumer context is executing
    cur,            \* the event _dispatch_result popped and is handling
    waitCalls,      \* number of wait() calls made so far
    r_result,       \* self._result
    r_error,        \* self._error
    r_is_finished,  \* self._is_finished
    r_resp_status,  \* self._resp_status
    r_resp_headers, \* self._resp_headers
    pushed,         \* history: events the worker pushed, in push order
    handled,        \* history: events _dispatch_result handled, in order
    dispatched,     \* history: _dispatch_callbacks calls, in order
    cancelledAt,    \* history: phase in which cancel() first was called
    callbacks,      \* self.on_start .. self.on_finish: the callback lists
    bound,          \* history: the bind() calls that returned, in order
    bind_errors,    \* history: number of bind() calls that raised
    all_headers,    \* what get_all_headers(resp) yields for the response
    parsed_headers  \* the dict modify_response_headers builds from it

config == <<backend, file_path, decode, self_chunk_size>>
workerVars == <<wpc, raised, resp, unread, total_size, bytes_so_far, result,
                fd_open, conn>>
stateVars == <<r_result, r_error, r_is_finished, r_resp_status, r_resp_headers>>
consumerVars == <<mode, cur, waitCalls>>
bindVars == <<callbacks, bound, bind_errors>>
headerVars == <<all_headers, parsed_headers>>
vars == <<backend, file_path, decode, self_chunk_size, started, on_start_calls, wpc, raised, resp,
          unread, total_size, bytes_so_far, result, fd_open, conn, queue,
          trigger, cancel_event, g_requests, mode, cur, waitCalls, r_result,
          r_error, r_is_finished, r_resp_status, r_resp_headers, pushed,
          handled, dispatched, cancelledAt, callbacks, bound, bind_errors,
          all_headers, parsed_headers>>

\* ------------------------------------------------------------------ events
\* a queue element (kind, resp, data); data is spread over body/bytes/total
Ev(kind, rsp, body, bytes, total) ==
    [kind |-> kind, resp |-> rsp, body |-> body, bytes |-> bytes, total |-> total]

NoEvent == Ev("none", NoResp, None, 0, 0)

\* mutant of ProgressEv: the tuple is built as (total_size, bytes_so_far)
ProgressEvSwapped(rsp, bytes, total) == Ev("progress", rsp, None, total, bytes)

\* ('progress', resp, (bytes_so_far, total_size))
ProgressEv(rsp, bytes, total) == Ev("progress", rsp, None, bytes, total)

TerminalKinds == {"success", "error", "killed"}

\* a _dispatch_callbacks call: the callback list and the arguments
Call(cb, body, bytes, total) ==
    [cb |-> cb, body |-> body, bytes |-> bytes, total |-> total]

\* ------------------------------------------------------------ pure helpers
\* mutant of appendleft: append(), the end the consumer pops from
appendright(q, e) == q \o <<e>>

\* q = self._queue.appendleft
appendleft(q, e) == <<e>> \o q

\* mutant of pop: popleft(), the element at the end the worker pushes to
popleft(q) == [value |-> Head(q), rest |-> Tail(q)]

\* mutant of pop: self._queue[-1], the element is returned and left in the deque
peek(q) == [value |-> q[Len(q)], rest |-> q]

\* self._queue.pop(): removes and returns the element at the right end
pop(q) == [value |-> q[Len(q)], rest |-> SubSeq(q, 1, Len(q) - 1)]

\* report_progress = self.on_progress is not None; on_progress is always a list
report_progress == TRUE

\* get_total_size(resp): the Content-Length header, which the server sets to
\* the length of the body
get_total_size(n) == n

\* get_status_code(resp)
get_status_code(rsp) == rsp

\* `if resp:` in _dispatch_result: None is falsy; an http.client response is
\* always truthy; a requests.Response is truthy iff its status is below 400
Truthy(rsp) ==
    /\ rsp # NoResp
    /\ (backend = "requests" => get_status_code(rsp) < 400)

\* mutant of TerminalEvent: the else clause pushes 'success' without looking
\* at the cancellation flag
TerminalEventIgnoringFlag(exc, flag, rsp, res) ==
    IF exc THEN Ev("error", NoResp, "exception", 0, 0)
    ELSE Ev("success", rsp, res, 0, 0)

\* the terminal event run() pushes once the try block is over
TerminalEvent(exc, flag, rsp, res) ==
    IF exc THEN Ev("error", NoResp, "exception", 0, 0)
    ELSE IF ~flag THEN Ev("success", rsp, res, 0, 0)
    ELSE Ev("killed", NoResp, None, 0, 0)

\* mutant of OnStatusCode: the first test is status_class == 2, so that a 1xx
\* response dispatches nothing
OnStatusCodeWithout1xx(data, status_class) ==
    IF status_class = 2 THEN <<Call("on_success", data, 0, 0)>>
    ELSE IF status_class = 3 THEN <<Call("on_redirect", data, 0, 0)>>
    ELSE IF status_class \in {4, 5} THEN <<Call("on_failure", data, 0, 0)>>
    ELSE <<>>

\* _on_status_code: the callback list dispatched for a status class
OnStatusCode(data, status_class) ==
    IF status_class \in {1, 2} THEN <<Call("on_success", data, 0, 0)>>
    ELSE IF status_class = 3 THEN <<Call("on_redirect", data, 0, 0)>>
    ELSE IF status_class \in {4, 5} THEN <<Call("on_failure", data, 0, 0)>>
    ELSE <<>>

\* mutant of CallsFor: the test `if result != "progress"` before the on_finish
\* dispatch is missing
CallsForAlwaysFinish(e) ==
    (IF e.kind = "success"
        THEN OnStatusCode(e.body, get_status_code(e.resp) \div 100)
     ELSE IF e.kind = "progress"
        THEN <<Call("on_progress", None, e.bytes, e.total)>>
     ELSE IF e.kind = "error"
        THEN <<Call("on_error", e.body, 0, 0)>>
     ELSE <<Call("on_cancel", None, 0, 0)>>)
    \o <<Call("on_finish", None, 0, 0)>>

\* the callbacks _dispatch_result dispatches for one popped event
CallsFor(e) ==
    (IF e.kind = "success"
        THEN OnStatusCode(e.body, get_status_code(e.resp) \div 100)
     ELSE IF e.kind = "progress"
        THEN <<Call("on_progress", None, e.bytes, e.total)>>
     ELSE IF e.kind = "error"
        THEN <<Call("on_error", e.body, 0, 0)>>
     ELSE <<Call("on_cancel", None, 0, 0)>>)
    \o (IF e.kind # "progress" THEN <<Call("on_finish", None, 0, 0)>> ELSE <<>>)

\* dict(pairs): every key of the list, mapped to the value of its last pair
dict(pairs) ==
    [k \in {pairs[i][1] : i \in DOMAIN pairs} |->
        pairs[CHOOSE i \in DOMAIN pairs :
                 /\ pairs[i][1] = k
                 /\ \A j \in DOMAIN pairs : pairs[j][1] = k => j <= i][2]]

\* the pairs of a list whose key is, or is not, "Set-Cookie", in list order
RECURSIVE SelectPairs(_, _)
SelectPairs(pairs, cookies) ==
    IF pairs = <<>> THEN <<>>
    ELSE (IF (Head(pairs)[1] = "Set-Cookie") = cookies
             THEN <<Head(pairs)>> ELSE <<>>)
         \o SelectPairs(Tail(pairs), cookies)

\* final_cookies: "{};".format(value) added for every Set-Cookie pair
RECURSIVE final_cookies(_)
final_cookies(pairs) ==
    IF pairs = <<>> THEN <<>>
    ELSE (IF Head(pairs)[1] = "Set-Cookie"
             THEN Head(pairs)[2] \o <<";">> ELSE <<>>)
         \o final_cookies(Tail(pairs))

\* s[:-1]
DropLast(str) == IF str = <<>> THEN <<>> ELSE SubSeq(str, 1, Len(str) - 1)

\* mutant of ParsedHeaders: final_cookies is stored without the [:-1]
ParsedHeadersUntrimmed(pairs) ==
    dict(Append(SelectPairs(pairs, FALSE),
                <<"Set-Cookie", final_cookies(pairs)>>))

\* modify_response_headers: the dict assigned to self._resp_headers
ParsedHeaders(pairs) ==
    dict(Append(SelectPairs(pairs, FALSE),
                <<"Set-Cookie", DropLast(final_cookies(pairs))>>))

\* the dict before modify_response_headers has run
NoHeaders == [k \in {} |-> <<>>]

\* modify_response_headers applied to the headers of the response
ModifyResponseHeaders ==
    /\ parsed_headers = NoHeaders
    /\ parsed_headers' = ParsedHeaders(all_headers)
    /\ UNCHANGED <<config, started, on_start_calls, workerVars, queue, trigger,
                   cancel_event, g_requests, consumerVars, stateVars, pushed,
                   handled, dispatched, cancelledAt, bindVars, all_headers>>

\* -------------------------------------------------------------------- Init
\* the fields __init__ sets, but for the callback lists
Constructed ==
    /\ backend \in Backends
    /\ file_path \in {None, "path"}
    /\ decode \in BOOLEAN
    /\ started = FALSE
    /\ on_start_calls = 0
    /\ wpc = "idle"
    /\ raised = FALSE
    /\ resp = NoResp
    /\ unread = 0
    /\ total_size = -1
    /\ bytes_so_far = 0
    /\ result = None
    /\ fd_open = FALSE
    /\ conn = "none"
    /\ queue = <<>>
    /\ trigger = FALSE
    /\ cancel_event = FALSE
    /\ g_requests = {"self"}
    /\ mode = "idle"
    /\ cur = NoEvent
    /\ waitCalls = 0
    /\ r_result = None
    /\ r_error = None
    /\ r_is_finished = FALSE
    /\ r_resp_status = NoStatus
    /\ r_resp_headers = None
    /\ pushed = <<>>
    /\ handled = <<>>
    /\ dispatched = <<>>
    /\ cancelledAt = "never"
    /\ bound = <<>>
    /\ bind_errors = 0
    /\ parsed_headers = NoHeaders

\* the state after __init__ with start=False and a callback for every kind
Init ==
    /\ Constructed
    /\ self_chunk_size = chunk_size
    /\ callbacks = [k \in CallbackKinds |-> <<"ctor">>]
    /\ all_headers = <<>>


\* ------------------------------------------------------------ the callers
\* q(event): the worker pushes an event at the left end of the deque
Push(e) ==
    /\ queue' = appendleft(queue, e)
    /\ pushed' = Append(pushed, e)

\* start(): dispatch on_start (counted in on_start_calls), then Thread.start(),
\* which raises RuntimeError when the thread was started before
Start ==
    /\ on_start_calls < MaxStarts
    /\ on_start_calls' = on_start_calls + 1
    /\ IF started
          THEN UNCHANGED <<started, wpc>>
          ELSE started' = TRUE /\ wpc' = "call"
    /\ UNCHANGED <<config, raised, resp, unread, total_size, bytes_so_far,
                   result, fd_open, conn, queue, trigger, cancel_event,
                   g_requests, consumerVars, stateVars, pushed, handled,
                   dispatched, cancelledAt, bindVars, headerVars>>

\* the worker has pushed its terminal event
TerminalPushed == wpc \in {"trigger", "loop", "remove", "done"}

\* the phase of the request at a cancel() call
Phase ==
    IF ~started THEN "before_start"
    ELSE IF TerminalPushed THEN "after_terminal"
    ELSE "before_decision"

\* mutant of Cancel: cancel() also empties the queue
CancelClearingQueue ==
    /\ cancel_event' = TRUE
    /\ queue' = <<>>
    /\ cancelledAt' = IF cancelledAt = "never" THEN Phase ELSE cancelledAt
    /\ UNCHANGED <<config, started, on_start_calls, workerVars, trigger,
                   g_requests, consumerVars, stateVars, pushed, handled,
                   dispatched, bindVars, headerVars>>

\* cancel(): self._cancel_event.set()
Cancel ==
    /\ cancel_event' = TRUE
    /\ cancelledAt' = IF cancelledAt = "never" THEN Phase ELSE cancelledAt
    /\ UNCHANGED <<config, started, on_start_calls, workerVars, queue, trigger,
                   g_requests, consumerVars, stateVars, pushed, handled,
                   dispatched, bindVars, headerVars>>

\* what bind() appends to a callback list: each method of an iterable in
\* order, or the one method that is not iterable (the except TypeError branch)
AppendMethods(callbacks_list, arg) ==
    IF arg.iterable
       THEN callbacks_list \o arg.methods
       ELSE Append(callbacks_list, arg.methods[1])

\* what every bind() call leaves alone
BindFrame ==
    UNCHANGED <<config, started, on_start_calls, workerVars, queue, trigger,
                cancel_event, g_requests, consumerVars, stateVars, pushed,
                handled, dispatched, cancelledAt, headerVars>>

\* mutant of Bind: the assert on self._started is missing
BindWithoutAssert(arg) ==
    /\ Len(bound) + bind_errors < MaxBinds
    /\ callbacks' = [callbacks EXCEPT ![arg.callback_type] =
                        AppendMethods(@, arg)]
    /\ bound' = Append(bound, arg)
    /\ UNCHANGED bind_errors
    /\ BindFrame

\* bind(**{callback_type: methods}): AssertionError once the thread was
\* started, otherwise the methods are appended to the named list
Bind(arg) ==
    /\ Len(bound) + bind_errors < MaxBinds
    /\ IF started
          THEN /\ bind_errors' = bind_errors + 1
               /\ UNCHANGED <<callbacks, bound>>
          ELSE /\ callbacks' = [callbacks EXCEPT ![arg.callback_type] =
                                   AppendMethods(@, arg)]
               /\ bound' = Append(bound, arg)
               /\ UNCHANGED bind_errors
    /\ BindFrame

\* -------------------------------------------------------------- the worker
\* what every worker step leaves alone
WorkerFrame ==
    UNCHANGED <<config, started, on_start_calls, cancel_event, g_requests,
                consumerVars, stateVars, handled, dispatched, cancelledAt,
                bindVars, headerVars>>

\* mutant of Raise: run() has no except clause, the exception ends the thread
RaiseUncaught ==
    /\ raised' = TRUE
    /\ wpc' = "done"

\* the exception leaves _fetch_url / decode_result for run()'s except clause
Raise ==
    /\ raised' = TRUE
    /\ wpc' = "decide"

\* run() up to the first push: prepare_request_, call_request and the choice
\* between the streaming and the single-read path of _fetch_url
WorkerCallRequest ==
    /\ wpc = "call"
    /\ \/ \* the exchange fails, before or after the connection was created
          /\ Raise
          /\ conn' \in (IF backend = "urllib" THEN {"none", "open"} ELSE {"none"})
          /\ UNCHANGED <<resp, unread, total_size, bytes_so_far, result, fd_open>>
       \/ \E status \in StatusCodes, n \in 0..MaxBody :
             /\ resp' = status
             /\ conn' = IF backend = "urllib" THEN "open" ELSE "none"
             /\ raised' = raised
             /\ fd_open' = fd_open
             /\ bytes_so_far' = bytes_so_far
             /\ IF report_progress \/ file_path # None
                   THEN /\ total_size' = get_total_size(n)
                        /\ unread' = n
                        /\ result' = result
                        /\ wpc' = IF report_progress THEN "fake_progress"
                                  ELSE IF file_path # None THEN "open_file"
                                  ELSE "chunks"
                   ELSE /\ total_size' = total_size
                        /\ unread' = 0
                        /\ result' \in {"str", "bytes"}
                        /\ wpc' = "close"
    /\ UNCHANGED <<queue, trigger, pushed>>
    /\ WorkerFrame

\* q(('progress', resp, (0, total_size)))
WorkerFakeProgress ==
    /\ wpc = "fake_progress"
    /\ Push(ProgressEv(resp, 0, total_size))
    /\ wpc' = IF file_path # None THEN "open_file" ELSE "chunks"
    /\ UNCHANGED <<raised, resp, unread, total_size, bytes_so_far, result,
                   fd_open, conn, trigger>>
    /\ WorkerFrame

\* with open(file_path, 'wb') as fd
WorkerOpenFile ==
    /\ wpc = "open_file"
    /\ \/ Raise /\ fd_open' = FALSE
       \/ fd_open' = TRUE /\ wpc' = "chunks" /\ raised' = raised
    /\ UNCHANGED <<resp, unread, total_size, bytes_so_far, result, conn,
                   queue, trigger, pushed>>
    /\ WorkerFrame

\* one iteration of get_chunks up to the cancellation check: read a chunk,
\* store it, count it, push its progress event and fire the trigger
WorkerReadChunk ==
    /\ wpc = "chunks"
    /\ \/ \* resp.read / fd.write raises; the with block closes the file
          /\ Raise
          /\ fd_open' = FALSE
          /\ UNCHANGED <<unread, bytes_so_far, result, queue, trigger, pushed>>
       \/ LET chunk == Min(self_chunk_size, unread) IN
          /\ raised' = raised
          /\ fd_open' = fd_open
          /\ IF chunk = 0
                THEN /\ wpc' = "after_chunks"
                     /\ UNCHANGED <<unread, bytes_so_far, result, queue,
                                    trigger, pushed>>
                ELSE /\ unread' = unread - chunk
                     /\ bytes_so_far' = bytes_so_far + chunk
                     /\ result' = result
                     /\ IF report_progress
                           THEN /\ Push(ProgressEv(resp, bytes_so_far + chunk,
                                                   total_size))
                                /\ trigger' = TRUE
                           ELSE UNCHANGED <<queue, trigger, pushed>>
                     /\ wpc' = "check_cancel"
    /\ UNCHANGED <<resp, total_size, conn>>
    /\ WorkerFrame

\* mutant of WorkerCheckCancel: the flag is not looked at after a chunk
WorkerNeverChecksCancel ==
    /\ wpc = "check_cancel"
    /\ wpc' = "chunks"
    /\ UNCHANGED <<raised, resp, unread, total_size, bytes_so_far, result,
                   fd_open, conn, queue, trigger, pushed>>
    /\ WorkerFrame

\* if self._cancel_event.is_set(): break
WorkerCheckCancel ==
    /\ wpc = "check_cancel"
    /\ wpc' = IF cancel_event THEN "after_chunks" ELSE "chunks"
    /\ UNCHANGED <<raised, resp, unread, total_size, bytes_so_far, result,
                   fd_open, conn, queue, trigger, pushed>>
    /\ WorkerFrame

\* get_chunks returns (bytes_so_far, result); the file is closed; the final
\* progress event is pushed and the trigger fired
WorkerAfterChunks ==
    /\ wpc = "after_chunks"
    /\ fd_open' = FALSE
    /\ result' = "bytes"
    /\ IF report_progress
          THEN /\ Push(ProgressEv(resp, bytes_so_far, total_size))
               /\ trigger' = TRUE
          ELSE UNCHANGED <<queue, trigger, pushed>>
    /\ wpc' = "close"
    /\ UNCHANGED <<raised, resp, unread, total_size, bytes_so_far, conn>>
    /\ WorkerFrame

\* self.close_connection(req), and `if self.decode`
WorkerClose ==
    /\ wpc = "close"
    /\ conn' = IF backend = "urllib" THEN "closed" ELSE conn
    /\ wpc' = IF decode THEN "decode" ELSE "decide"
    /\ UNCHANGED <<raised, resp, unread, total_size, bytes_so_far, result,
                   fd_open, queue, trigger, pushed>>
    /\ WorkerFrame

\* the bytes decode_result sees: nothing when the body went to the file
InMemory == IF file_path # None THEN 0 ELSE bytes_so_far

\* decode_result for a response whose Content-Type splits into ct and whose
\* body is of the given kind
DecodeResult(ct, kind) ==
    /\ wpc = "decode"
    /\ kind \in (IF InMemory = 0 THEN {"notjson"} ELSE BodyKinds)
    /\ IF ct # <<>> /\ ct[1] = "application/json"
          THEN IF result = "bytes" /\ kind = "notutf8"
                  THEN Raise /\ result' = result
                  ELSE /\ result' = IF kind = "json" THEN "parsed" ELSE "str"
                       /\ wpc' = "decide"
                       /\ raised' = raised
          ELSE /\ result' = result
               /\ wpc' = "decide"
               /\ raised' = raised
    /\ UNCHANGED <<resp, unread, total_size, bytes_so_far, fd_open, conn,
                   queue, trigger, pushed>>
    /\ WorkerFrame

\* decode_result, for whatever the server sent
WorkerDecode ==
    \E ct \in ContentTypes, kind \in BodyKinds : DecodeResult(ct, kind)

\* the except / else clauses of run(): push the terminal event
WorkerDecide ==
    /\ wpc = "decide"
    /\ Push(TerminalEvent(raised, cancel_event, resp, result))
    /\ wpc' = "trigger"
    /\ UNCHANGED <<raised, resp, unread, total_size, bytes_so_far, result,
                   fd_open, conn, trigger>>
    /\ WorkerFrame

\* self._trigger_result() after the terminal push
WorkerTrigger ==
    /\ wpc = "trigger"
    /\ trigger' = TRUE
    /\ wpc' = "loop"
    /\ UNCHANGED <<raised, resp, unread, total_size, bytes_so_far, result,
                   fd_open, conn, queue, pushed>>
    /\ WorkerFrame

\* mutant of WorkerLoop: the worker goes on without looking at the queue
WorkerLoopNotWaiting ==
    /\ wpc = "loop"
    /\ trigger' = trigger
    /\ wpc' = "remove"
    /\ UNCHANGED <<raised, resp, unread, total_size, bytes_so_far, result,
                   fd_open, conn, queue, pushed>>
    /\ WorkerFrame

\* while len(self._queue): sleep(.1); self._trigger_result()
WorkerLoop ==
    /\ wpc = "loop"
    /\ IF Len(queue) > 0
          THEN trigger' = TRUE /\ wpc' = wpc
          ELSE trigger' = trigger /\ wpc' = "remove"
    /\ UNCHANGED <<raised, resp, unread, total_size, bytes_so_far, result,
                   fd_open, conn, queue, pushed>>
    /\ WorkerFrame

\* if self in g_requests: g_requests.remove(self)
WorkerRemove ==
    /\ wpc = "remove"
    /\ g_requests' = g_requests \ {"self"}
    /\ wpc' = "done"
    /\ UNCHANGED <<config, started, on_start_calls, raised, resp, unread,
                   total_size, bytes_so_far, result, fd_open, conn, queue,
                   trigger, cancel_event, consumerVars, stateVars, pushed,
                   handled, dispatched, cancelledAt, bindVars, headerVars>>

\* ------------------------------------------------------------ the consumer
\* what every consumer step leaves alone
ConsumerFrame ==
    UNCHANGED <<config, started, on_start_calls, workerVars, cancel_event,
                g_requests, pushed, cancelledAt, bindVars, headerVars>>

\* modify_response_headers: the values given to _resp_headers, _resp_status
modify_response_headers(rsp) ==
    [headers |-> "headers", status |-> get_status_code(rsp)]

\* the request's observable fields
RequestState ==
    [result |-> r_result, error |-> r_error, is_finished |-> r_is_finished,
     resp_status |-> r_resp_status, resp_headers |-> r_resp_headers]

\* mutant of StateAfter: the 'error' branch also assigns self._result = data
StateAfterErrorSetsResult(e, st) ==
    [result |-> IF e.kind \in {"success", "error"} THEN e.body ELSE st.result,
     error |-> IF e.kind = "error" THEN e.body ELSE st.error,
     is_finished |-> IF e.kind \in {"success", "error"} THEN TRUE
                     ELSE st.is_finished,
     resp_status |-> IF Truthy(e.resp)
                        THEN modify_response_headers(e.resp).status
                        ELSE st.resp_status,
     resp_headers |-> IF Truthy(e.resp)
                         THEN modify_response_headers(e.resp).headers
                         ELSE st.resp_headers]

\* the assignments _dispatch_result makes for the popped event e, on state st
StateAfter(e, st) ==
    [result |-> IF e.kind = "success" THEN e.body ELSE st.result,
     error |-> IF e.kind = "error" THEN e.body ELSE st.error,
     is_finished |-> IF e.kind \in {"success", "error"} THEN TRUE
                     ELSE st.is_finished,
     resp_status |-> IF Truthy(e.resp)
                        THEN modify_response_headers(e.resp).status
                        ELSE st.resp_status,
     resp_headers |-> IF Truthy(e.resp)
                         THEN modify_response_headers(e.resp).headers
                         ELSE st.resp_headers]

\* the scheduler runs the triggered callback: _dispatch_result is entered
SchedulerRun ==
    /\ mode = "idle"
    /\ trigger
    /\ trigger' = FALSE
    /\ mode' = "trigger_drain"
    /\ UNCHANGED <<cur, waitCalls, queue, stateVars, handled,
                   dispatched>>
    /\ ConsumerFrame

\* _dispatch_result: self._queue.pop(), or return on IndexError
DrainPop ==
    /\ mode \in {"trigger_drain", "wait_drain"}
    /\ cur = NoEvent
    /\ IF Len(queue) = 0
          THEN /\ mode' = IF mode = "wait_drain" THEN "wait_sleep" ELSE "idle"
               /\ UNCHANGED <<cur, queue>>
          ELSE /\ cur' = pop(queue).value
               /\ queue' = pop(queue).rest
               /\ mode' = mode
    /\ UNCHANGED <<waitCalls, trigger, stateVars, handled,
                   dispatched>>
    /\ ConsumerFrame

\* _dispatch_result: the body of the loop for the popped event
DrainHandle ==
    /\ cur # NoEvent
    /\ r_result' = StateAfter(cur, RequestState).result
    /\ r_error' = StateAfter(cur, RequestState).error
    /\ r_is_finished' = StateAfter(cur, RequestState).is_finished
    /\ r_resp_status' = StateAfter(cur, RequestState).resp_status
    /\ r_resp_headers' = StateAfter(cur, RequestState).resp_headers
    /\ dispatched' = dispatched \o CallsFor(cur)
    /\ handled' = Append(handled, cur)
    /\ cur' = NoEvent
    /\ UNCHANGED <<mode, waitCalls, queue, trigger>>
    /\ ConsumerFrame

\* the consumer calls wait()
Wait ==
    /\ mode = "idle"
    /\ waitCalls < MaxWaits
    /\ waitCalls' = waitCalls + 1
    /\ mode' = "wait_check"
    /\ UNCHANGED <<cur, queue, trigger, stateVars, handled,
                   dispatched>>
    /\ ConsumerFrame

\* while self.resp_status is None: self._dispatch_result(delay)
WaitCheck ==
    /\ mode = "wait_check"
    /\ IF r_resp_status = NoStatus
          THEN mode' = "wait_drain"
          ELSE mode' = "wait_returned"
    /\ UNCHANGED <<cur, waitCalls, queue, trigger, stateVars, handled,
                   dispatched>>
    /\ ConsumerFrame

\* sleep(delay) in wait()
WaitSleep ==
    /\ mode = "wait_sleep"
    /\ mode' = "wait_check"
    /\ UNCHANGED <<cur, waitCalls, queue, trigger, stateVars,
                   handled, dispatched>>
    /\ ConsumerFrame

\* the caller of wait() goes on after it returned
WaitReturn ==
    /\ mode = "wait_returned"
    /\ mode' = "idle"
    /\ UNCHANGED <<cur, waitCalls, queue, trigger, stateVars,
                   handled, dispatched>>
    /\ ConsumerFrame

\* ------------------------------------------------------- the specification
Worker ==
    \/ WorkerCallRequest
    \/ WorkerFakeProgress
    \/ WorkerOpenFile
    \/ WorkerReadChunk
    \/ WorkerCheckCancel
    \/ WorkerAfterChunks
    \/ WorkerClose
    \/ WorkerDecode
    \/ WorkerDecide
    \/ WorkerTrigger
    \/ WorkerLoop
    \/ WorkerRemove

Consumer ==
    \/ SchedulerRun
    \/ DrainPop
    \/ DrainHandle
    \/ WaitCheck
    \/ WaitSleep
    \/ WaitReturn

Next ==
    \/ Start
    \/ Cancel
    \/ Wait
    \/ Worker
    \/ Consumer

Spec == Init /\ [][Next]_vars

\* the worker thread keeps running, and so does the consumer's main loop
FairSpec == Spec /\ WF_vars(Worker) /\ WF_vars(Consumer)

\* the callback lists after __init__ with on_success given and nothing else
OnlyOnSuccess ==
    [k \in CallbackKinds |-> IF k = "on_success" THEN <<"ctor">> ELSE <<>>]

\* a urllib request created with start=False, decode=True and an on_success
\* callback
InitBind ==
    /\ Constructed
    /\ backend = "urllib"
    /\ decode = TRUE
    /\ self_chunk_size = chunk_size
    /\ callbacks = OnlyOnSuccess
    /\ all_headers = <<>>

\* the request is bound, started and run, and its events are drained by the
\* trigger
NextBind ==
    \/ \E arg \in BindArgs : Bind(arg)
    \/ Start
    \/ Worker
    \/ SchedulerRun
    \/ DrainPop
    \/ DrainHandle

BindSpec == InitBind /\ [][NextBind]_vars

\* a request with decode=True and a chunk size of one byte, so that a body
\* takes several chunk reads
InitStream ==
    /\ Constructed
    /\ decode = TRUE
    /\ self_chunk_size = 1
    /\ callbacks = [k \in CallbackKinds |-> <<"ctor">>]
    /\ all_headers = <<>>

\* the request is started, possibly cancelled, and run; its events are
\* drained by the trigger
NextStream ==
    \/ Start
    \/ Cancel
    \/ Worker
    \/ SchedulerRun
    \/ DrainPop
    \/ DrainHandle

StreamSpec == InitStream /\ [][NextStream]_vars

\* the drain the Clock trigger runs
TriggerDrain ==
    \/ SchedulerRun
    \/ DrainPop
    \/ DrainHandle

\* the streaming request on the urllib backend
InitUrllibStream == InitStream /\ backend = "urllib"

\* a urllib request whose worker thread keeps running, and whose drain
\* callback the scheduler runs once the trigger was fired
FairStreamSpec ==
    /\ InitUrllibStream
    /\ [][NextStream]_vars
    /\ WF_vars(Worker)
    /\ WF_vars(TriggerDrain)

\* a urllib request whose response carries any list of headers
InitHeaders ==
    /\ Constructed
    /\ backend = "urllib"
    /\ file_path = None
    /\ decode = TRUE
    /\ self_chunk_size = chunk_size
    /\ callbacks = OnlyOnSuccess
    /\ all_headers \in HeaderLists

\* the response headers are parsed
HeaderSpec == InitHeaders /\ [][ModifyResponseHeaders]_vars

\* ---------------------------------------------- vocabulary of the claims
\* the positions of a sequence whose element satisfies a test
Where(seq, Test(_)) == {i \in 1..Len(seq) : Test(seq[i])}

IsTerminal(e) == e.kind \in TerminalKinds
IsProgress(e) == e.kind = "progress"
IsSuccess(e) == e.kind = "success"
IsError(e) == e.kind = "error"

\* the callback kinds that report the outcome of a request
OutcomeCalls == {"on_success", "on_redirect", "on_failure", "on_error",
                 "on_cancel"}

IsOutcomeCall(c) == c.cb \in OutcomeCalls
IsFinishCall(c) == c.cb = "on_finish"
IsStatusCall(c) == c.cb \in {"on_success", "on_redirect", "on_failure"}
IsCancelCall(c) == c.cb = "on_cancel"
IsErrorCall(c) == c.cb = "on_error"

\* the worker has finished and every event it pushed has been handled
Quiescent == wpc = "done" /\ queue = <<>> /\ cur = NoEvent

\* the terminal event the worker pushed (it is the last push)
PushedTerminal == pushed[Len(pushed)]

\* ----------------------------------------------------------------- claims

\* C1: for every started request, once the worker has finished and the queue
\* is fully drained, exactly one of on_success, on_redirect, on_failure,
\* on_error, on_cancel has been dispatched, exactly once, immediately followed
\* by the only on_finish dispatch, for every status code and cancel timing.
C1_ExactlyOneOutcomeThenFinish ==
    Quiescent =>
        /\ Cardinality(Where(dispatched, IsOutcomeCall)) = 1
        /\ Cardinality(Where(dispatched, IsFinishCall)) = 1
        /\ \A i \in Where(dispatched, IsOutcomeCall) :
              i + 1 \in Where(dispatched, IsFinishCall)

\* C2: on every path of run() the worker pushes exactly one terminal event,
\* after every progress event and as its last push; a failure raised in the
\* worker becomes the single 'error' event; the worker never ends without a
\* terminal event.
C2_OneTerminalPushedLast ==
    /\ Cardinality(Where(pushed, IsTerminal)) <= 1
    /\ \A i \in Where(pushed, IsTerminal) : i = Len(pushed)
    /\ TerminalPushed <=> Where(pushed, IsTerminal) # {}
    /\ (TerminalPushed /\ raised) => PushedTerminal.kind = "error"
    /\ (TerminalPushed /\ PushedTerminal.kind = "error") => raised
    /\ wpc = "done" => Cardinality(Where(pushed, IsTerminal)) = 1

\* C2 witness: a failure raised at a chunk read, after progress events, ended
\* the worker with the 'error' event as its last push.
C2_Witness ==
    /\ wpc = "done"
    /\ raised
    /\ Len(pushed) >= 3
    /\ PushedTerminal.kind = "error"

\* the events the consumer has taken off the queue, in the order taken
Taken == IF cur = NoEvent THEN handled ELSE Append(handled, cur)

\* the events still in the deque, in the order pop() will return them
Pending == [i \in 1..Len(queue) |-> queue[Len(queue) + 1 - i]]

\* C3: under every interleaving of pushes with drains (by the trigger or by
\* wait()) the consumer handles the pushed events in push order: progress
\* before the terminal event, at most one terminal event, nothing after it.
C3_HandledInPushOrder ==
    /\ Taken \o Pending = pushed
    /\ Cardinality(Where(handled, IsTerminal)) <= 1
    /\ \A i \in Where(handled, IsTerminal) : i = Len(handled)

\* C3 witness: the consumer called wait() during the request, and every
\* pushed event was handled, several progress events first, the terminal last.
C3_Witness ==
    /\ Quiescent
    /\ waitCalls > 0
    /\ Len(handled) >= 4
    /\ IsTerminal(handled[Len(handled)])
    /\ r_resp_status # NoStatus

C5_WaitReturnsAfterTerminal ==
    mode = "wait_returned" =>
        /\ Where(handled, IsTerminal) # {}
        /\ (r_resp_status # NoStatus \/ r_error # None)

\* the consumer is inside a wait() call that has not returned
InWait == mode \in {"wait_check", "wait_drain", "wait_sleep"}

\* C6: for every started request whose worker pushes a terminal event
\* (success with any status code on either backend, error, cancellation), a
\* wait() call on the consumer context eventually returns.
C6_WaitEventuallyReturns ==
    (TerminalPushed /\ InWait) ~> (mode = "wait_returned")

\* C7: resp_status is not None iff a terminal 'success' event has been
\* drained: draining a progress, error or cancel event leaves resp_status and
\* resp_headers None, and draining a success event with any status code, on
\* both backends, sets resp_status to that code.
C7_StatusIffSuccessDrained ==
    /\ r_resp_status # NoStatus <=> Where(handled, IsSuccess) # {}
    /\ \A i \in Where(handled, IsSuccess) :
          r_resp_status = get_status_code(handled[i].resp)
    /\ Where(handled, IsSuccess) = {} => r_resp_headers = None

\* C8: error is not None iff a terminal 'error' event has been drained, and
\* result and error are never both set.
C8_ErrorIffErrorDrained ==
    /\ r_error # None <=> Where(handled, IsError) # {}
    /\ ~(r_result # None /\ r_error # None)

\* C8 witness: an 'error' event was drained and set error, not result.
C8_Witness ==
    /\ Where(handled, IsError) # {}
    /\ r_error = "exception"
    /\ r_result = None

\* the callback kind the claim assigns to a status code
KindForStatus(status) ==
    IF status >= 100 /\ status <= 299 THEN {"on_success"}
    ELSE IF status >= 300 /\ status <= 399 THEN {"on_redirect"}
    ELSE IF status >= 400 /\ status <= 599 THEN {"on_failure"}
    ELSE {}

\* C9: draining a 'success' event dispatches exactly the callback kind its
\* status code selects (on_success for 1xx/2xx, on_redirect for 3xx,
\* on_failure for 4xx/5xx), with the body; a response with an HTTP status
\* never dispatches on_error and never sets error.
C9_ClassifiedByStatusClass ==
    /\ \A i \in Where(handled, IsSuccess) :
          /\ {dispatched[j].cb : j \in Where(dispatched, IsOutcomeCall)}
                = KindForStatus(get_status_code(handled[i].resp))
          /\ \A j \in Where(dispatched, IsOutcomeCall) :
                dispatched[j].body = handled[i].body
          /\ Cardinality(Where(dispatched, IsOutcomeCall)) <= 1
          /\ r_error = None
    /\ Where(handled, IsSuccess) = {} => Where(dispatched, IsStatusCall) = {}

\* C9 witness: a 5xx response was drained and on_failure dispatched with the
\* decoded body.
C9_Witness ==
    /\ \E i \in Where(handled, IsSuccess) :
          get_status_code(handled[i].resp) >= 500 /\ handled[i].body = "parsed"
    /\ \E j \in 1..Len(dispatched) : dispatched[j].cb = "on_failure"

\* the callbacks draining a sequence of events dispatches
RECURSIVE CallsForAll(_)
CallsForAll(evs) ==
    IF evs = <<>> THEN <<>> ELSE CallsFor(Head(evs)) \o CallsForAll(Tail(evs))

\* C10 (frame): a cancel() that sets the flag changes nothing else.
CancelOnlySetsFlag ==
    cancel_event' # cancel_event =>
        UNCHANGED <<queue, r_result, r_error, r_resp_status, r_resp_headers,
                    r_is_finished, g_requests>>

\* C10 (delivery): when cancel() was first called after the terminal push,
\* what is delivered is what is delivered without any cancel().
LateCancelDeliversTheSame ==
    cancelledAt \in {"never", "after_terminal"} =>
        /\ TerminalPushed =>
              PushedTerminal = TerminalEvent(raised, FALSE, resp, result)
        /\ Quiescent =>
              handled = pushed /\ dispatched = CallsForAll(pushed)

HandledPrefix == SubSeq(pushed, 1, Len(handled))

\* C11: whatever sequence of drains by wait() and by the trigger handled
\* them, each pushed event is dispatched to its callbacks exactly once: at
\* every moment the dispatched callbacks are those of the events handled so
\* far, once each and in push order, which is what draining by the trigger
\* alone dispatches; at the end they are those of all the pushed events.
C11_EachEventDispatchedOnce ==
    /\ Len(handled) <= Len(pushed)
    /\ dispatched = CallsForAll(HandledPrefix)
    /\ Quiescent => dispatched = CallsForAll(pushed)

\* C11 witness: a drain made by wait() is handling the terminal event after
\* at least two earlier events were dispatched.
C11_Witness ==
    /\ mode = "wait_drain"
    /\ IsTerminal(cur)
    /\ Len(handled) >= 2
    /\ Len(dispatched) >= 2

IsProgressCall(c) == c.cb = "on_progress"

\* C12: the bytes-so-far values on_progress receives, in the order received,
\* never decrease and start with the synthetic 0; every on_progress dispatch
\* comes before the callbacks of the terminal event.
C12_ProgressMonotonic ==
    /\ \A i, j \in Where(dispatched, IsProgressCall) :
          i < j => dispatched[i].bytes <= dispatched[j].bytes
    /\ Where(dispatched, IsProgressCall) # {} =>
          IsProgressCall(dispatched[1]) /\ dispatched[1].bytes = 0
    /\ \A i \in Where(dispatched, IsProgressCall), j \in 1..Len(dispatched) :
          ~IsProgressCall(dispatched[j]) => i < j

\* C12 witness: on_progress received 0 and later a positive count, and the
\* terminal event was dispatched after them.
C12_Witness ==
    /\ Quiescent
    /\ \E i, j \in Where(dispatched, IsProgressCall) :
          i < j /\ dispatched[i].bytes = 0 /\ dispatched[j].bytes > 0
    /\ Where(dispatched, IsFinishCall) # {}

\* C13: on_finish is dispatched exactly once per request: in the drain step
\* that handles the terminal event and as the last callback of that step,
\* after the terminal event's own callbacks; handling a progress event never
\* dispatches it.
C13_FinishOnceWithTerminal ==
    /\ Cardinality(Where(dispatched, IsFinishCall))
          = Cardinality(Where(handled, IsTerminal))
    /\ Cardinality(Where(dispatched, IsFinishCall)) <= 1
    /\ \A i \in Where(dispatched, IsFinishCall) :
          /\ i = Len(dispatched)
          /\ \A j \in Where(dispatched, IsOutcomeCall) : j = i - 1
    /\ Quiescent => Cardinality(Where(dispatched, IsFinishCall)) = 1

\* C13 witness: progress events were handled without an on_finish dispatch,
\* then the terminal event's callback and on_finish were dispatched.
C13_Witness ==
    /\ Cardinality(Where(handled, IsProgress)) >= 2
    /\ Where(handled, IsTerminal) # {}
    /\ Where(dispatched, IsOutcomeCall) # {}
    /\ IsFinishCall(dispatched[Len(dispatched)])

\* C14: the request is never removed from g_requests while a drain is still
\* delivering one of its events: when it has been removed the terminal event
\* was pushed and every pushed event has been completely dispatched, under
\* every interleaving of the worker's end-of-run loop with the drain.
C14_RemovedOnlyWhenDelivered ==
    g_requests = {} =>
        /\ TerminalPushed
        /\ queue = <<>>
        /\ cur = NoEvent
        /\ handled = pushed
        /\ dispatched = CallsForAll(pushed)

\* C15: a second start() is rejected and changes nothing: the worker is not
\* run a second time, no second terminal event is pushed, and on_start is not
\* dispatched again; on_start is dispatched exactly once per started request.
C15_SecondStartChangesNothing ==
    /\ on_start_calls = (IF started THEN 1 ELSE 0)
    /\ Cardinality(Where(pushed, IsTerminal)) <= 1

\* the worker has begun executing run(), or an event exists or was delivered
WorkerBegan == wpc # "idle" \/ pushed # <<>> \/ handled # <<>>

\* C17: start() dispatches the on_start callbacks on the calling thread
\* completely before the worker begins executing: every step that dispatches
\* on_start is taken while the worker has not begun and no progress or
\* terminal event has been pushed or delivered.
C17_OnStartBeforeWorker ==
    [][on_start_calls' # on_start_calls => ~started /\ ~WorkerBegan]_vars

\* C18: with decode set, a body that cannot be decoded (invalid JSON, or bytes
\* that are not valid UTF-8, under content-type application/json) never makes
\* the request fail: no step of decode_result raises, so the worker goes on
\* to push 'success' with the undecoded body, never 'error'.
C18_DecodeNeverFails ==
    [][wpc = "decode" => ~raised']_vars

\* C19: for a 2xx response with no file sink and decode enabled, the body
\* handed on for on_success is the parsed JSON value when the content type is
\* application/json and the body is valid JSON, and is a text string (not raw
\* bytes, not parsed) when the same bytes arrive with content-type text/plain.
C19_ParsedJsonOrText ==
    [][(file_path = None /\ get_status_code(resp) \div 100 = 2) =>
          /\ DecodeResult(<<"application/json">>, "json") => result' = "parsed"
          /\ DecodeResult(<<"text/plain">>, "json") => result' = "str"]_vars

\* C20: is_finished is False until a terminal event has been drained and
\* True from then on, whatever the terminal outcome: success, redirect,
\* failure, error or cancel.
C20_FinishedIffTerminalDrained ==
    r_is_finished <=> Where(handled, IsTerminal) # {}

\* the methods the accepted bind() calls gave for one callback kind, in order
RECURSIVE BoundMethods(_, _)
BoundMethods(calls, k) ==
    IF calls = <<>> THEN <<>>
    ELSE (IF Head(calls).callback_type = k THEN Head(calls).methods ELSE <<>>)
         \o BoundMethods(Tail(calls), k)

\* C16 (after start): a bind() call made once the request was started
\* raises and leaves every callback list as it was; bind() raises only then.
BindAfterStartFails ==
    /\ started => callbacks' = callbacks /\ bound' = bound
    /\ bind_errors' # bind_errors => started

\* C16 (before start): each list holds the callbacks registered at
\* construction followed by the methods bound to its kind, in bind order.
BoundAfterRegistered ==
    \A k \in CallbackKinds :
        callbacks[k] = OnlyOnSuccess[k] \o BoundMethods(bound, k)

\* C16: bind() after start() fails and leaves every callback list unchanged;
\* bind() on a request created with start=False and not yet started appends
\* the given callbacks to the named kind's list, after those already there.
C16_BindOnlyBeforeStart ==
    [][BindAfterStartFails]_vars /\ []BoundAfterRegistered

\* C16 witness: a callback was bound after the one given at construction,
\* and a bind() made after the worker finished raised.
C16_Witness ==
    /\ callbacks["on_success"] = <<"ctor", "f">>
    /\ wpc = "done"
    /\ bind_errors = 1

\* the values of a list of strings joined by a separator
RECURSIVE Join(_, _)
Join(strs, sep) ==
    IF strs = <<>> THEN <<>>
    ELSE IF Len(strs) = 1 THEN strs[1]
    ELSE strs[1] \o sep \o Join(Tail(strs), sep)

\* the values of the headers of one name, in arrival order
ValuesOf(pairs, name) ==
    LET at == {i \in DOMAIN pairs : pairs[i][1] = name}
        nth[n \in 0..Cardinality(at)] ==
            IF n = 0 THEN 0
            ELSE CHOOSE i \in at :
                    i > nth[n - 1] /\ \A j \in at : j > nth[n - 1] => i <= j
    IN [n \in 1..Cardinality(at) |-> pairs[nth[n]][2]]

FlagSetAtDecision == cancelledAt \in {"before_start", "before_decision"}

\* C22: whenever the cancellation flag is set at the moment the worker
\* decides the outcome the terminal event pushed is 'killed', also when the
\* transport call or a chunk read raised; 'error' is pushed only when the
\* flag is not set.
C22_FlagSetMeansKilled ==
    TerminalPushed =>
        /\ FlagSetAtDecision => PushedTerminal.kind = "killed"
        /\ PushedTerminal.kind = "error" => ~FlagSetAtDecision

\* an on_progress callback is registered, or a file path is configured
WantsStreaming == callbacks["on_progress"] # <<>> \/ file_path # None

\* the worker is past the read of the body without having raised
BodyRead == wpc \in {"close", "decode", "decide"} /\ ~raised

\* C23: the worker streams the body in chunks and pushes progress events if
\* and only if an on_progress callback is registered or a file path is
\* configured; otherwise it pushes no progress event and the terminal event
\* is the only event of the request.
C23_StreamsIffSubscribed ==
    /\ Where(pushed, IsProgress) # {} => WantsStreaming
    /\ (BodyRead /\ WantsStreaming) => Where(pushed, IsProgress) # {}
    /\ (TerminalPushed /\ ~WantsStreaming) => Len(pushed) = 1

\* a step in which the worker reads a chunk of the body
ChunkRead == unread' # unread /\ wpc = "chunks"

\* the worker is at the check of the flag that follows a chunk, and the
\* flag is set
SawFlagSet == wpc = "check_cancel" /\ cancel_event

\* the worker has left the chunk loop
PastChunks == wpc \in {"after_chunks", "close", "decode", "decide", "trigger",
                       "loop", "remove", "done"}

\* C24 (steps): the flag is never cleared; every chunk read is followed by
\* the check of the flag; a check that sees the flag set leaves the loop; once out of the loop the
\* worker reads nothing more and pushes only the final progress event.
StopsAfterFlagSeen ==
    /\ cancel_event => cancel_event'
    /\ ChunkRead => wpc' = "check_cancel"
    /\ SawFlagSet => wpc' \in {"check_cancel", "after_chunks"}
    /\ PastChunks =>
          /\ unread' = unread /\ bytes_so_far' = bytes_so_far
          /\ wpc' # "chunks"
          /\ (Len(pushed') > Len(pushed) /\ IsProgress(pushed'[Len(pushed')]))
                => wpc = "after_chunks"

\* C24 (outcome): a request cancelled before its worker started reads at
\* most one chunk, and then pushes at most the synthetic, one per-chunk and
\* the final progress event.
AtMostOneChunkAfterFlag ==
    cancelledAt = "before_start" =>
        /\ bytes_so_far <= self_chunk_size
        /\ Cardinality(Where(pushed, IsProgress)) <= 3

\* C24: in the streaming path, once the cancellation flag is set the worker
\* completes at most one further chunk read, then stops reading (possibly
\* with a partial body), pushes no further per-chunk progress event and goes
\* on to the outcome decision; it never reads a second chunk after a chunk
\* whose post-read check saw the flag set.
C24_StopsReadingOnCancel ==
    [][StopsAfterFlagSeen]_vars /\ []AtMostOneChunkAfterFlag

\* C24 witness: the worker stopped on a partial body: the flag was set, one
\* chunk was read, bytes are left unread, and 'killed' was pushed.
C24_Witness ==
    /\ cancelledAt = "before_start"
    /\ bytes_so_far = 1
    /\ unread > 0
    /\ TerminalPushed
    /\ PushedTerminal.kind = "killed"

\* C25: every connection handle the worker opened is closed before the
\* worker pushes its terminal event, on every path: normal completion,
\* cancellation, a failure of the request/response exchange after the
\* connection object was created, a failure while reading chunks or
\* writing the file sink.
C25_ConnectionClosedBeforeTerminal ==
    TerminalPushed => conn # "open"

\* the number of body bytes the worker has read: the length of the body (the
\* Content-Length the server announced) less what the transport still holds
BytesRead == total_size - unread

\* the last on_progress dispatch
LastProgressCall ==
    dispatched[CHOOSE i \in Where(dispatched, IsProgressCall) :
                  \A j \in Where(dispatched, IsProgressCall) : j <= i]

\* C26: when the transfer ended without raising (by EOF or by cancellation),
\* the last progress event delivered before the terminal event carries the
\* number of body bytes the worker read, whatever the coalescing of the
\* trigger.
C26_FinalProgressIsByteCount ==
    (~raised /\ Where(handled, IsTerminal) # {}) =>
        /\ Where(dispatched, IsProgressCall) # {}
        /\ LastProgressCall.bytes = BytesRead

\* C26 witness: a transfer cancelled on a partial body was delivered; the
\* last progress carried the bytes read, which is less than the total.
C26_Witness ==
    /\ ~raised
    /\ Quiescent
    /\ unread > 0
    /\ BytesRead > 0
    /\ Where(dispatched, IsCancelCall) # {}
    /\ LastProgressCall.bytes = BytesRead
    /\ LastProgressCall.total > BytesRead

\* the worker has ended, the request is out of the registry and every event
\* it pushed, the terminal one included, has been drained
AllDelivered ==
    /\ wpc = "done"
    /\ g_requests = {}
    /\ handled = pushed
    /\ Where(handled, IsTerminal) # {}

\* the worker leaves its end-of-run loop only on seeing the queue empty,
\* after the terminal push, and ends only from there
EndsOnEmptyQueue ==
    /\ (wpc' = "remove" /\ wpc # "remove") =>
          wpc = "loop" /\ queue = <<>> /\ Where(pushed, IsTerminal) # {}
    /\ (wpc' = "done" /\ wpc # "done") => wpc = "remove"
    /\ g_requests' # g_requests => wpc = "remove"

\* C27: when the scheduler eventually runs the drain after the trigger was
\* fired, every event the worker pushed, the terminal event included, is
\* eventually drained and every started request is eventually removed from
\* g_requests; the worker ends only after it has seen the queue empty after
\* the push of the terminal event.
C27_EventuallyDrainedAndRemoved ==
    (started ~> AllDelivered) /\ [][EndsOnEmptyQueue]_vars

\* C27 witness: a request with several events was completely drained and
\* removed from the registry.
C27_Witness ==
    /\ AllDelivered
    /\ Len(pushed) >= 3
    /\ cur = NoEvent
    /\ mode = "idle"
    /\ ~trigger

====
